---------------------------- MODULE Spec2Model ----------------------------
(***************************************************************************)
(* CameraOptimizer (nerfstudio/cameras/camera_optimizers.py) as a state    *)
(* machine: a configuration is drawn, the constructor runs, and then the   *)
(* public methods and the external optimizer step are called in any order. *)
(*                                                                         *)
(* Numbers are integers standing for exactly representable floats.  A      *)
(* tensor of shape [N, ...] is a sequence of length N whose k-th element   *)
(* (1-based) is row k-1 of the tensor.  Device placement (.to(device)) is  *)
(* not modelled: it never changes a value.                                 *)
(***************************************************************************)
EXTENDS Integers, Sequences, FiniteSets, TLC

\* ------------------------------------------------------------------ bounds
\* Largest num_cameras a constructor call is given.
MaxCameras == 2
\* Largest batch (indices of a forward call, rays of a ray bundle).
MaxBatch == 2

\* ------------------------------------------------------------ value domains
Zero3 == <<0, 0, 0>>

\* The literal values of CameraOptimizerConfig.mode.
Modes == {"off", "SO3xR3", "SE3", "shared_SO3xR3"}

\* What a caller can hand in as mode: the literals, and a value outside them.
RequestedModes == Modes \cup {"bogus"}

\* The defaults of CameraOptimizerConfig, the penalties in units of 1e-3.
trans_l2_penalty == 10

rot_l2_penalty == 1

penalty_scale == 1

\* Values of penalty_scale: negative ("If -1, mode = off"), zero, the default.
PenaltyScales == {-1, 0, penalty_scale}

\* The default penalties.
DefaultWeights == { <<trans_l2_penalty, rot_l2_penalty>> }

\* Penalties a configuration can set: either sign and zero.
PenaltyWeights == {-1, 0, 1} \X {-1, 0, 1}

\* Rows the external optimizer can write into pose_adjustment: all zero,
\* translation only, rotation only, both (norms 1, 2, 3 and 1: exact).
RowValues ==
    { <<0, 0, 0, 0, 0, 0>>,
      <<-1, 0, 0, 0, 0, 0>>,
      <<0, 0, 0, 0, 0, 2>>,
      <<2, 2, 1, 0, 1, 0>> }

ZeroRow == <<0, 0, 0, 0, 0, 0>>

\* kwargs.get("suffix", "")
suffix == ""

VARIABLES
    pc,                            \* "new", "ready" (constructed), "failed" (constructor raised)
    requested,                     \* config.mode as the caller passed it (history)
    config,                        \* self.config
    num_cameras,                   \* self.num_cameras
    non_trainable_camera_indices,  \* [given, idx]: None, or the tensor's values
    non_trainable_camera_filter,   \* [given, bits]: None, or the bool tensor
    pose_adjustment,               \* the [P, 6] parameter, <<>> while the attribute is unset
    parameters,                    \* names of the registered nn.Parameters
    op,                            \* the call whose result the caller holds, or "none"
    err,                           \* the exception it raised, or "none"
    indices,                       \* the index tensor of the last forward
    ret,                           \* the value the last forward returned
    raybundle0, raybundle,         \* the ray bundle before and after apply_to_raybundle
    camera0, camera,               \* the camera before and after apply_to_camera
    dict0, dict                    \* the dict argument before and after the last call

vars == << pc, requested, config, num_cameras, non_trainable_camera_indices,
           non_trainable_camera_filter, pose_adjustment, parameters, op, err,
           indices, ret, raybundle0, raybundle, camera0, camera, dict0, dict >>

\* -------------------------------------------------------------- Lie groups
\* A rotation block: the identity, or exp(skew(w)) for the axis-angle w.
Eye3 == [kind |-> "eye", w |-> Zero3]

\* SO3 exponential of w: the zero vector gives the identity exactly.
exp_SO3(w) == IF w = Zero3 THEN Eye3 ELSE [kind |-> "exp", w |-> w]

\* A translation column V(w) * lin, where V(0) = I; V(w) * 0 = 0.
Column(w, lin) == IF lin = Zero3 THEN [V |-> Zero3, lin |-> Zero3] ELSE [V |-> w, lin |-> lin]

\* torch.eye(4)[:3, :4]
Identity34 == [R |-> Eye3, t |-> Column(Zero3, Zero3)]

\* tangent_vector[:3] (translation) and tangent_vector[3:] (rotation).
Lin(v) == <<v[1], v[2], v[3]>>

Ang(v) == <<v[4], v[5], v[6]>>

\* Decoupled exponential of one row: rotation exp(skew(v_rot)), translation v_trans.
SO3xR3_row(v) == [R |-> exp_SO3(Ang(v)), t |-> Column(Zero3, Lin(v))]

\* Coupled exponential of one row: translation coupled through the rotation.
SE3_row(v) == [R |-> exp_SO3(Ang(v)), t |-> Column(Ang(v), Lin(v))]

\* exp_map_SO3xR3 on a [N, 6] tensor.
exp_map_SO3xR3(tangent_vector) ==
    [k \in 1..Len(tangent_vector) |-> SO3xR3_row(tangent_vector[k])]

\* exp_map_SE3 on a [N, 6] tensor.
exp_map_SE3(tangent_vector) ==
    [k \in 1..Len(tangent_vector) |-> SE3_row(tangent_vector[k])]

\* ---------------------------------------------------------------- tensors
\* zeros filled with a non-zero value instead.
zeros_filled(rows) == [k \in 1..rows |-> <<-1, 0, 0, 0, 0, 0>>]

\* torch.zeros((rows, 6))
zeros(rows) == [k \in 1..rows |-> ZeroRow]

\* An index tensor: dim 1 is shape [N]; dim 0 is a scalar (squeeze of N = 1).
Index1(vals) == [dim |-> 1, vals |-> vals]

\* Sequences over S of length at most n.
SeqUpTo(S, n) == UNION { [1..k -> S] : k \in 0..n }

\* tensor.squeeze() of camera indices of shape [N] or [N, 1].
squeeze(vals) == IF Len(vals) = 1 THEN [dim |-> 0, vals |-> vals] ELSE [dim |-> 1, vals |-> vals]

\* --------------------------------------------------------------- defaults
NoIndex == Index1(<<>>)

NoBundle == [origins |-> <<>>, directions |-> <<>>, camera_indices |-> <<>>, trailing |-> FALSE]

NoCamera == [metadata |-> [given |-> FALSE, keys |-> {}, cam_idx |-> 0], camera_to_worlds |-> <<>>]

\* ------------------------------------------------------------ construction
\* [True if i in non_trainable_camera_indices else False for i in range(num_cameras)]
camera_filter(idx, n) == [k \in 1..n |-> (k - 1) \in idx]

\* The arguments of a constructor call: a configuration with penalties among
\* `weights`, num_cameras, and non_trainable_camera_indices (None, or, with
\* `masks`, a tensor of camera indices).
Arguments(weights, masks) ==
    /\ pc = "new"
    /\ requested \in RequestedModes
    /\ \E ps \in PenaltyScales, w \in weights :
          config = [mode |-> requested, trans_l2_penalty |-> w[1],
                    rot_l2_penalty |-> w[2], penalty_scale |-> ps]
    /\ num_cameras \in 1..MaxCameras
    /\ \/ non_trainable_camera_indices = [given |-> FALSE, idx |-> {}]
       \/ /\ masks
          /\ \E s \in SUBSET (0..(num_cameras - 1)) :
                non_trainable_camera_indices = [given |-> TRUE, idx |-> s]
    /\ non_trainable_camera_filter = [given |-> FALSE, bits |-> <<>>]
    /\ pose_adjustment = <<>>
    /\ parameters = <<>>
    /\ op = "none"
    /\ err = "none"
    /\ indices = NoIndex
    /\ ret = <<>>
    /\ raybundle0 = NoBundle
    /\ raybundle = NoBundle
    /\ camera0 = NoCamera
    /\ camera = NoCamera
    /\ dict0 = {}
    /\ dict = {}

\* Default penalties, any non-trainable set.
Init == Arguments(DefaultWeights, TRUE)

\* Any penalties, no non-trainable set.
InitPenalties == Arguments(PenaltyWeights, FALSE)

\* What the last call leaves behind when it takes no such argument.
NoCall ==
    /\ indices' = NoIndex
    /\ ret' = <<>>
    /\ raybundle0' = NoBundle
    /\ raybundle' = NoBundle
    /\ camera0' = NoCamera
    /\ camera' = NoCamera
    /\ dict0' = {}
    /\ dict' = {}

\* coerced_mode with the comparison off by one: zero is coerced too.
coerced_mode_le(cfg) == IF cfg.penalty_scale <= 0 THEN "off" ELSE cfg.mode

\* The mode the constructor dispatches on: negative penalty_scale forces "off".
coerced_mode(cfg) == IF cfg.penalty_scale < 0 THEN "off" ELSE cfg.mode

\* allocate with the last branch defaulting to "off" instead of raising.
allocate_default(mode, n) ==
    IF mode \in {"SO3xR3", "SE3"}
    THEN [err |-> "none", pose_adjustment |-> zeros(n), parameters |-> <<"pose_adjustment">>]
    ELSE IF mode = "shared_SO3xR3"
    THEN [err |-> "none", pose_adjustment |-> zeros(1), parameters |-> <<"pose_adjustment">>]
    ELSE [err |-> "none", pose_adjustment |-> <<>>, parameters |-> <<>>]

\* allocate with the parameter registered in mode "off" as well.
allocate_eager(mode, n) ==
    IF mode \in {"off", "SO3xR3", "SE3"}
    THEN [err |-> "none", pose_adjustment |-> zeros(n), parameters |-> <<"pose_adjustment">>]
    ELSE IF mode = "shared_SO3xR3"
    THEN [err |-> "none", pose_adjustment |-> zeros(1), parameters |-> <<"pose_adjustment">>]
    ELSE [err |-> "AssertionError", pose_adjustment |-> <<>>, parameters |-> <<>>]

\* Lines 111-119: the learnable parameters of a mode, [err, pose_adjustment,
\* parameters]; assert_never raises on a value outside the literals.
allocate(mode, n) ==
    IF mode = "off"
    THEN [err |-> "none", pose_adjustment |-> <<>>, parameters |-> <<>>]
    ELSE IF mode \in {"SO3xR3", "SE3"}
    THEN [err |-> "none", pose_adjustment |-> zeros(n), parameters |-> <<"pose_adjustment">>]
    ELSE IF mode = "shared_SO3xR3"
    THEN [err |-> "none", pose_adjustment |-> zeros(1), parameters |-> <<"pose_adjustment">>]
    ELSE [err |-> "AssertionError", pose_adjustment |-> <<>>, parameters |-> <<>>]

\* CameraOptimizer.__init__
__init__ ==
    /\ pc = "new"
    /\ op' = "__init__"
    /\ LET mode == coerced_mode(config)
           a == allocate(mode, num_cameras)
       IN
       /\ config' = [config EXCEPT !.mode = mode]
       /\ pose_adjustment' = a.pose_adjustment
       /\ parameters' = a.parameters
       /\ err' = a.err
       /\ IF a.err = "none"
          THEN /\ pc' = "ready"
               /\ non_trainable_camera_filter' =
                     IF non_trainable_camera_indices.given
                     THEN [given |-> TRUE,
                           bits |-> camera_filter(non_trainable_camera_indices.idx, num_cameras)]
                     ELSE [given |-> FALSE, bits |-> <<>>]
          ELSE /\ pc' = "failed"
               /\ UNCHANGED non_trainable_camera_filter
    /\ NoCall
    /\ UNCHANGED << requested, num_cameras, non_trainable_camera_indices >>

\* The external optimizer's step: writes a row of the registered parameter.
OptimizerStep ==
    /\ pc = "ready" /\ op = "none"
    /\ Len(parameters) > 0
    /\ \E k \in 1..Len(pose_adjustment), row \in RowValues :
          pose_adjustment' = [pose_adjustment EXCEPT ![k] = row]
    /\ op' = "step"
    /\ err' = "none"
    /\ NoCall
    /\ UNCHANGED << pc, requested, config, num_cameras, non_trainable_camera_indices,
                    non_trainable_camera_filter, parameters >>

\* ------------------------------------------------------------------ forward
\* Whether self.pose_adjustment is set (nn.Module raises AttributeError if not).
has_pose_adjustment == \E k \in 1..Len(parameters) : parameters[k] = "pose_adjustment"

\* gather reading row 0 for every index.
gather_first(idx) == [k \in 1..Len(idx.vals) |-> pose_adjustment[1]]

\* self.pose_adjustment[indices, :]
gather(idx) == [k \in 1..Len(idx.vals) |-> pose_adjustment[idx.vals[k] + 1]]

\* tile filling only the first row with the tensor, the rest with the identity.
tile_first(one, n) == [k \in 1..n |-> IF k = 1 THEN one[1] ELSE Identity34]

\* tensor.tile((n, 1, 1)) of a [1, 3, 4] tensor.
tile(one, n) == [k \in 1..n |-> one[1]]

\* Lines 141-153: the list `outputs` after the mode dispatch.  A scalar index
\* makes the Lie map's input 1-dimensional, and indices.shape[0] undefined.
learned_delta(idx) ==
    IF config.mode = "off" THEN [err |-> "none", outputs |-> <<>>]
    ELSE IF config.mode \notin Modes THEN [err |-> "AssertionError", outputs |-> <<>>]
    ELSE IF idx.dim = 0 THEN [err |-> "IndexError", outputs |-> <<>>]
    ELSE IF config.mode = "SO3xR3"
    THEN [err |-> "none", outputs |-> << exp_map_SO3xR3(gather(idx)) >>]
    ELSE IF config.mode = "SE3"
    THEN [err |-> "none", outputs |-> << exp_map_SE3(gather(idx)) >>]
    ELSE [err |-> "none",
          outputs |-> << tile(exp_map_SO3xR3(pose_adjustment), Len(idx.vals)) >>]

\* detach without the overwrite.
detach_skip(out, idx) == out

\* Lines 162-163: outputs[0][self.non_trainable_camera_filter[indices]] = eye.
detach(out, idx) ==
    [k \in 1..Len(out) |->
        IF non_trainable_camera_filter.bits[idx.vals[k] + 1] THEN Identity34 ELSE out[k]]

\* Lines 155-163: the non-trainable override, on the list `outputs`.
non_trainable(d, idx) ==
    IF ~non_trainable_camera_indices.given THEN d
    ELSE IF ~has_pose_adjustment THEN [err |-> "AttributeError", outputs |-> <<>>]
    ELSE IF Len(d.outputs) = 0 THEN [err |-> "IndexError", outputs |-> <<>>]
    ELSE [err |-> "none", outputs |-> << detach(d.outputs[1], idx) >>]

\* CameraOptimizer.forward: [err, out], out the [N, 3, 4] tensor returned.
forward(idx) ==
    LET d == learned_delta(idx)
        m == IF d.err # "none" THEN d ELSE non_trainable(d, idx)
    IN  IF m.err # "none" THEN [err |-> m.err, out |-> <<>>]
        ELSE IF Len(m.outputs) = 0
        THEN IF idx.dim = 0 THEN [err |-> "IndexError", out |-> <<>>]
             ELSE [err |-> "none", out |-> tile(<<Identity34>>, Len(idx.vals))]
        ELSE [err |-> "none", out |-> m.outputs[1]]

\* Index batches a caller passes to forward: values in [0, num_cameras).
Batches == { Index1(b) : b \in SeqUpTo(0..(num_cameras - 1), MaxBatch) }

\* What a call leaves unchanged of the object itself.
SameObject ==
    UNCHANGED << pc, requested, config, num_cameras, non_trainable_camera_indices,
                 non_trainable_camera_filter, pose_adjustment, parameters >>

\* A call of self(indices) whose identity overwrite lands in the parameter:
\* the rows of the non-trainable cameras of the batch are zeroed.
CallForward_inplace ==
    /\ pc = "ready" /\ op = "none"
    /\ \E idx \in Batches :
          /\ indices' = idx
          /\ ret' = forward(idx).out
          /\ err' = forward(idx).err
          /\ pose_adjustment' =
                [k \in 1..Len(pose_adjustment) |->
                    IF /\ non_trainable_camera_indices.given
                       /\ \E j \in 1..Len(idx.vals) :
                             idx.vals[j] = k - 1 /\ idx.vals[j] \in non_trainable_camera_indices.idx
                    THEN ZeroRow ELSE pose_adjustment[k]]
    /\ op' = "forward"
    /\ raybundle0' = NoBundle /\ raybundle' = NoBundle
    /\ camera0' = NoCamera /\ camera' = NoCamera
    /\ dict0' = {} /\ dict' = {}
    /\ UNCHANGED << pc, requested, config, num_cameras, non_trainable_camera_indices,
                    non_trainable_camera_filter, parameters >>

\* A call of self(indices).
CallForward ==
    /\ pc = "ready" /\ op = "none"
    /\ \E idx \in Batches :
          /\ indices' = idx
          /\ ret' = forward(idx).out
          /\ err' = forward(idx).err
    /\ op' = "forward"
    /\ raybundle0' = NoBundle /\ raybundle' = NoBundle
    /\ camera0' = NoCamera /\ camera' = NoCamera
    /\ dict0' = {} /\ dict' = {}
    /\ SameObject

\* CameraOptimizer.get_correction_matrices: self(torch.arange(0, num_cameras)).
get_correction_matrices ==
    /\ pc = "ready" /\ op = "none"
    /\ LET idx == Index1([k \in 1..num_cameras |-> k - 1]) IN
          /\ indices' = idx
          /\ ret' = forward(idx).out
          /\ err' = forward(idx).err
    /\ op' = "get_correction_matrices"
    /\ raybundle0' = NoBundle /\ raybundle' = NoBundle
    /\ camera0' = NoCamera /\ camera' = NoCamera
    /\ dict0' = {} /\ dict' = {}
    /\ SameObject

\* --------------------------------------------------------------- ray bundle
\* a + b on 3-vectors.
VecAdd(a, b) == <<a[1] + b[1], a[2] + b[2], a[3] + b[3]>>

\* A ray origin `at`, displaced by the coupled column `plus`.
Point(at) == [at |-> at, plus |-> Column(Zero3, Zero3)]

\* origin + correction[:3, 3]: a decoupled column adds componentwise.
add_translation(o, c) ==
    IF c.V = Zero3 THEN [at |-> VecAdd(o.at, c.lin), plus |-> o.plus]
    ELSE [at |-> o.at, plus |-> c]

\* A ray direction R * d.
Direction(d) == [R |-> Eye3, d |-> d]

\* correction[:3, :3] @ direction: the identity block leaves it as it is.
rotate(R, dir) == IF R = Eye3 THEN dir ELSE [R |-> R, d |-> dir.d]

\* The ray bundles a caller passes: N rays of fixed origins and directions, the
\* camera index of each, stored with shape [N] or [N, 1] (trailing).
RayBundles ==
    { [origins |-> [k \in 1..Len(ci) |-> Point(<<k, 0, 0>>)],
       directions |-> [k \in 1..Len(ci) |-> Direction(<<0, k, 1>>)],
       camera_indices |-> ci,
       trailing |-> tr] :
      ci \in SeqUpTo(0..(num_cameras - 1), MaxBatch), tr \in BOOLEAN }

\* apply_to_raybundle without the mode guard.
apply_to_raybundle_unguarded(rb) ==
    LET c == forward(squeeze(rb.camera_indices)) IN
    IF c.err # "none" THEN [err |-> c.err, raybundle |-> rb]
    ELSE [err |-> "none",
          raybundle |->
             [rb EXCEPT
                !.origins = [k \in 1..Len(rb.origins) |->
                                add_translation(rb.origins[k], c.out[k].t)],
                !.directions = [k \in 1..Len(rb.directions) |->
                                   rotate(c.out[k].R, rb.directions[k])]]]

\* CameraOptimizer.apply_to_raybundle: [err, raybundle].
apply_to_raybundle(rb) ==
    IF config.mode # "off"
    THEN LET c == forward(squeeze(rb.camera_indices)) IN
         IF c.err # "none" THEN [err |-> c.err, raybundle |-> rb]
         ELSE [err |-> "none",
               raybundle |->
                  [rb EXCEPT
                     !.origins = [k \in 1..Len(rb.origins) |->
                                     add_translation(rb.origins[k], c.out[k].t)],
                     !.directions = [k \in 1..Len(rb.directions) |->
                                        rotate(c.out[k].R, rb.directions[k])]]]
    ELSE [err |-> "none", raybundle |-> rb]

CallApplyToRaybundle ==
    /\ pc = "ready" /\ op = "none"
    /\ \E rb \in RayBundles :
          /\ raybundle0' = rb
          /\ raybundle' = apply_to_raybundle(rb).raybundle
          /\ err' = apply_to_raybundle(rb).err
    /\ op' = "apply_to_raybundle"
    /\ indices' = NoIndex /\ ret' = <<>>
    /\ camera0' = NoCamera /\ camera' = NoCamera
    /\ dict0' = {} /\ dict' = {}
    /\ SameObject

\* ------------------------------------------------------------------- camera
\* camera.metadata: None, a dict without "cam_idx", or a dict holding it.
Metadatas ==
    { [given |-> FALSE, keys |-> {}, cam_idx |-> 0],
      [given |-> TRUE, keys |-> {}, cam_idx |-> 0] }
    \cup { [given |-> TRUE, keys |-> {"cam_idx"}, cam_idx |-> i] : i \in 0..(num_cameras - 1) }

\* One camera: camera_to_worlds is the pose c2w times the chain of adjustments.
Cameras == { [metadata |-> md, camera_to_worlds |-> << [pose |-> "c2w", chain |-> <<>>] >>] :
             md \in Metadatas }

\* c2w @ adj, adj the 3x4 correction with the row [0, 0, 0, 1] appended:
\* the identity leaves c2w as it is.
multiply(c2w, adj) ==
    IF adj = Identity34 THEN c2w ELSE [c2w EXCEPT !.chain = Append(@, adj)]

\* torch.bmm(camera.camera_to_worlds, adj)
bmm(c2ws, adjs) == [k \in 1..Len(c2ws) |-> multiply(c2ws[k], adjs[k])]

\* apply_to_camera without the two assertions (the identifier defaulting to 0).
apply_to_camera_unchecked(cam) ==
    IF config.mode # "off"
    THEN LET adj == forward(Index1(<<cam.metadata.cam_idx>>)) IN
         IF adj.err # "none" THEN [err |-> adj.err, camera |-> cam]
         ELSE [err |-> "none",
               camera |-> [cam EXCEPT
                              !.camera_to_worlds = bmm(cam.camera_to_worlds, adj.out)]]
    ELSE [err |-> "none", camera |-> cam]

\* CameraOptimizer.apply_to_camera: [err, camera].
apply_to_camera(cam) ==
    IF config.mode # "off"
    THEN IF ~cam.metadata.given THEN [err |-> "AssertionError", camera |-> cam]
         ELSE IF "cam_idx" \notin cam.metadata.keys
         THEN [err |-> "AssertionError", camera |-> cam]
         ELSE LET adj == forward(Index1(<<cam.metadata.cam_idx>>)) IN
              IF adj.err # "none" THEN [err |-> adj.err, camera |-> cam]
              ELSE [err |-> "none",
                    camera |-> [cam EXCEPT
                                   !.camera_to_worlds = bmm(cam.camera_to_worlds, adj.out)]]
    ELSE [err |-> "none", camera |-> cam]

CallApplyToCamera ==
    /\ pc = "ready" /\ op = "none"
    /\ \E cam \in Cameras :
          /\ camera0' = cam
          /\ camera' = apply_to_camera(cam).camera
          /\ err' = apply_to_camera(cam).err
    /\ op' = "apply_to_camera"
    /\ indices' = NoIndex /\ ret' = <<>>
    /\ raybundle0' = NoBundle /\ raybundle' = NoBundle
    /\ dict0' = {} /\ dict' = {}
    /\ SameObject

\* -------------------------------------------------- loss, metrics, parameters
\* d[key] = value on a dict held as a set of <<key, value>> pairs.
setitem(d, key, value) == { e \in d : e[1] # key } \cup { <<key, value>> }

\* The keys of a dict.
keys(d) == { e[1] : e \in d }

\* x . x of a 3-vector.
SumSq(a) == a[1] * a[1] + a[2] * a[2] + a[3] * a[3]

\* The L2 norm of a 3-vector whose squared length is a perfect square.
norm(a) == CHOOSE n \in 0..SumSq(a) : n * n = SumSq(a)

\* The sum over the rows k..Len(rows) of f's norm.
RECURSIVE SumNorms(_, _, _)
SumNorms(rows, k, rot) ==
    IF k > Len(rows) THEN 0
    ELSE norm(IF rot THEN Ang(rows[k]) ELSE Lin(rows[k])) + SumNorms(rows, k + 1, rot)

\* The sum over the rows k..Len(rows) of the squared length.
RECURSIVE SumSqs(_, _, _)
SumSqs(rows, k, rot) ==
    IF k > Len(rows) THEN 0
    ELSE SumSq(IF rot THEN Ang(rows[k]) ELSE Lin(rows[k])) + SumSqs(rows, k + 1, rot)

\* regularizer with the rotation penalty subtracted.
regularizer_minus ==
    [num |-> (SumNorms(pose_adjustment, 1, FALSE) * config.trans_l2_penalty
              - SumNorms(pose_adjustment, 1, TRUE) * config.rot_l2_penalty)
             * config.penalty_scale,
     den |-> Len(pose_adjustment)]

\* (norm(dim=-1).mean() * trans_l2_penalty + norm(dim=-1).mean() * rot_l2_penalty)
\* * penalty_scale, as the fraction num / den (den the number of rows).
regularizer ==
    [num |-> (SumNorms(pose_adjustment, 1, FALSE) * config.trans_l2_penalty
              + SumNorms(pose_adjustment, 1, TRUE) * config.rot_l2_penalty)
             * config.penalty_scale,
     den |-> Len(pose_adjustment)]

\* The loss dicts a caller passes: empty, or holding the model's losses.
LossDicts == { {}, { << "rgb_loss", [num |-> 1, den |-> 1] >> } }

\* CameraOptimizer.get_loss_dict: the dict after the call.
get_loss_dict(loss_dict) ==
    IF config.mode # "off"
    THEN setitem(loss_dict, "camera_opt_regularizer" \o suffix, regularizer)
    ELSE loss_dict

CallGetLossDict ==
    /\ pc = "ready" /\ op = "none"
    /\ \E d \in LossDicts : dict0' = d /\ dict' = get_loss_dict(d)
    /\ op' = "get_loss_dict"
    /\ err' = "none"
    /\ indices' = NoIndex /\ ret' = <<>>
    /\ raybundle0' = NoBundle /\ raybundle' = NoBundle
    /\ camera0' = NoCamera /\ camera' = NoCamera
    /\ SameObject

\* The metrics dicts a caller passes; a norm over all rows is sqrt(sq).
MetricsDicts == { {}, { << "psnr", [sq |-> 1] >> } }

\* CameraOptimizer.get_metrics_dict: the dict after the call.
get_metrics_dict(metrics_dict) ==
    IF config.mode # "off"
    THEN setitem(setitem(metrics_dict, "camera_opt_translation" \o suffix,
                         [sq |-> SumSqs(pose_adjustment, 1, FALSE)]),
                 "camera_opt_rotation" \o suffix,
                 [sq |-> SumSqs(pose_adjustment, 1, TRUE)])
    ELSE metrics_dict

CallGetMetricsDict ==
    /\ pc = "ready" /\ op = "none"
    /\ \E d \in MetricsDicts : dict0' = d /\ dict' = get_metrics_dict(d)
    /\ op' = "get_metrics_dict"
    /\ err' = "none"
    /\ indices' = NoIndex /\ ret' = <<>>
    /\ raybundle0' = NoBundle /\ raybundle' = NoBundle
    /\ camera0' = NoCamera /\ camera' = NoCamera
    /\ SameObject

\* The registries a caller passes: empty, holding the model's groups, or
\* already holding a group of the name.
ParamGroups == { {}, { << "fields", << "weights" >> >> }, { << "camera_opt", << "stale" >> >> } }

\* CameraOptimizer.get_param_groups: [err, param_groups].
get_param_groups(param_groups, name) ==
    LET camera_opt_params == parameters IN
    IF config.mode # "off"
    THEN IF Len(camera_opt_params) > 0
         THEN [err |-> "none", param_groups |-> setitem(param_groups, name, camera_opt_params)]
         ELSE [err |-> "AssertionError", param_groups |-> param_groups]
    ELSE IF Len(camera_opt_params) = 0
         THEN [err |-> "none", param_groups |-> param_groups]
         ELSE [err |-> "AssertionError", param_groups |-> param_groups]

CallGetParamGroups ==
    /\ pc = "ready" /\ op = "none"
    /\ \E d \in ParamGroups :
          /\ dict0' = d
          /\ dict' = get_param_groups(d, "camera_opt").param_groups
          /\ err' = get_param_groups(d, "camera_opt").err
    /\ op' = "get_param_groups"
    /\ indices' = NoIndex /\ ret' = <<>>
    /\ raybundle0' = NoBundle /\ raybundle' = NoBundle
    /\ camera0' = NoCamera /\ camera' = NoCamera
    /\ SameObject

\* The caller takes the result of the last call: the object is idle again.
Return ==
    /\ pc = "ready" /\ op # "none"
    /\ op' = "none"
    /\ err' = "none"
    /\ NoCall
    /\ SameObject

Next ==
    \/ __init__
    \/ Return
    \/ OptimizerStep
    \/ CallForward
    \/ get_correction_matrices
    \/ CallApplyToRaybundle
    \/ CallApplyToCamera
    \/ CallGetLossDict
    \/ CallGetMetricsDict
    \/ CallGetParamGroups

Spec == Init /\ [][Next]_vars

SpecPenalties == InitPenalties /\ [][Next]_vars

\* ================================================================== claims
\* The last call returned correction matrices.
Corrections == pc = "ready" /\ op \in {"forward", "get_correction_matrices"}

\* Camera index i is in the non-trainable set given at construction.
NonTrainable(i) == non_trainable_camera_indices.given /\ i \in non_trainable_camera_indices.idx

\* One row per batch position was returned, without an exception.
OneRowEach == err = "none" /\ Len(ret) = Len(indices.vals)

\* Some parameter row is not zero.
SomeRowNonZero == \E k \in 1..Len(pose_adjustment) : pose_adjustment[k] # ZeroRow

\* C1 (as claimed): in mode off, forward returns N identity transforms and
\* does not raise, whatever the construction arguments, a non-trainable set
\* included.
C1_OffReturnsIdentity ==
    (Corrections /\ config.mode = "off") =>
        /\ OneRowEach
        /\ \A k \in 1..Len(ret) : ret[k] = Identity34

\* C2: in every mode but off, whatever the optimizer wrote, every output row
\* whose camera index is in the non-trainable set is the identity transform.
C2_NonTrainableIsIdentity ==
    (Corrections /\ config.mode # "off") =>
        /\ OneRowEach
        /\ \A k \in 1..Len(indices.vals) :
              NonTrainable(indices.vals[k]) => ret[k] = Identity34

\* C2 witness: a non-trainable camera whose parameters are not zero was asked for.
C2_Witness ==
    /\ Corrections /\ config.mode # "off" /\ err = "none"
    /\ \E k \in 1..Len(indices.vals) :
          /\ NonTrainable(indices.vals[k])
          /\ pose_adjustment[IF config.mode = "shared_SO3xR3" THEN 1 ELSE indices.vals[k] + 1]
                # ZeroRow
          /\ ret[k] = Identity34

\* The Lie map of a per-camera mode on one parameter row.
LieMap(row) == IF config.mode = "SE3" THEN SE3_row(row) ELSE SO3xR3_row(row)

C4_SharedAllEqual ==
    (Corrections /\ config.mode = "shared_SO3xR3" /\ err = "none") =>
        \A j, k \in 1..Len(ret) :
            indices.vals[j] # indices.vals[k] => ret[j] = ret[k]

\* C4 (amended): in mode shared_SO3xR3 the corrections of two distinct camera
\* indices are identical when both are trainable or both are non-trainable;
\* a trainable camera gets the Lie map of the shared row, a non-trainable one
\* the identity.
C4_SharedEqualPerGroup ==
    (Corrections /\ config.mode = "shared_SO3xR3") =>
        /\ OneRowEach
        /\ \A j, k \in 1..Len(indices.vals) :
              (NonTrainable(indices.vals[j]) <=> NonTrainable(indices.vals[k]))
                 => ret[j] = ret[k]
        /\ \A k \in 1..Len(indices.vals) :
              ~NonTrainable(indices.vals[k]) => ret[k] = SO3xR3_row(pose_adjustment[1])

\* C4 witness: two distinct trainable cameras share a non-identity correction.
C4_Witness ==
    /\ Corrections /\ config.mode = "shared_SO3xR3" /\ err = "none"
    /\ \E j, k \in 1..Len(indices.vals) :
          /\ indices.vals[j] # indices.vals[k]
          /\ ~NonTrainable(indices.vals[j]) /\ ~NonTrainable(indices.vals[k])
          /\ ret[j] = ret[k] /\ ret[j] # Identity34

\* C5: a constructor call with negative penalty_scale does not raise and gives
\* mode off without parameters, whatever mode was asked for; with
\* penalty_scale >= 0 config.mode stays the mode asked for.
C5_NegativeScaleIsOff ==
    pc # "new" =>
        IF config.penalty_scale < 0
        THEN /\ pc = "ready"
             /\ config.mode = "off"
             /\ parameters = <<>>
             /\ pose_adjustment = <<>>
        ELSE config.mode = requested

\* C5 witness: a mode other than off was asked for with a negative scale.
C5_Witness ==
    /\ pc = "ready" /\ op = "__init__"
    /\ config.penalty_scale < 0
    /\ requested = "SE3"
    /\ config.mode = "off"

\* C6 (as claimed): a constructor call with a mode outside the four literals
\* ends in a fault, whatever the other fields.
C6_BadModeFaults ==
    (pc # "new" /\ requested \notin Modes) => (pc = "failed" /\ err = "AssertionError")

\* C6 (amended): a constructor call with a mode outside the four literals ends
\* in a fault when penalty_scale >= 0; with a negative penalty_scale the mode
\* is coerced to off first and the call succeeds.
C6_BadModeFaultsUnlessCoerced ==
    (pc # "new" /\ requested \notin Modes) =>
        IF config.penalty_scale >= 0
        THEN pc = "failed" /\ err = "AssertionError" /\ parameters = <<>>
        ELSE pc = "ready" /\ config.mode = "off"

\* C6 witness: the constructor raised on a mode outside the literals.
C6_Witness ==
    /\ pc = "failed" /\ op = "__init__"
    /\ requested \notin Modes
    /\ config.penalty_scale >= 0
    /\ err = "AssertionError"

\* The camera carries no identifier: no metadata, or no "cam_idx" in it.
LacksIdentifier(cam) == ~cam.metadata.given \/ "cam_idx" \notin cam.metadata.keys

\* C7: in every mode but off, apply_to_camera on a camera without identifier
\* fails an assertion and leaves camera_to_worlds as it was; in mode off it
\* neither fails nor changes the camera, with or without the identifier.
C7_MissingIdentifier ==
    (pc = "ready" /\ op = "apply_to_camera") =>
        /\ (config.mode # "off" /\ LacksIdentifier(camera0)) =>
              (err = "AssertionError" /\ camera = camera0)
        /\ config.mode = "off" => (err = "none" /\ camera = camera0)

\* C7 witness: a camera whose metadata lacks the key, in an active mode.
C7_Witness ==
    /\ pc = "ready" /\ op = "apply_to_camera"
    /\ config.mode # "off"
    /\ camera0.metadata.given /\ "cam_idx" \notin camera0.metadata.keys
    /\ err = "AssertionError"
    /\ camera.camera_to_worlds = camera0.camera_to_worlds

\* C8: in mode off apply_to_raybundle does not raise and leaves origins,
\* directions and camera indices as they were.
C8_OffLeavesRays ==
    (pc = "ready" /\ op = "apply_to_raybundle" /\ config.mode = "off") =>
        /\ err = "none"
        /\ raybundle.origins = raybundle0.origins
        /\ raybundle.directions = raybundle0.directions
        /\ raybundle.camera_indices = raybundle0.camera_indices

\* C8 witness: a bundle of one ray and a non-trainable set, in mode off.
C8_Witness ==
    /\ pc = "ready" /\ op = "apply_to_raybundle" /\ config.mode = "off"
    /\ Len(raybundle0.camera_indices) = 1
    /\ non_trainable_camera_indices.given
    /\ raybundle = raybundle0

\* The value stored in the loss dict under the regularizer's key.
LossTerm == (CHOOSE e \in dict : e[1] = "camera_opt_regularizer" \o suffix)[2]

\* C9 (as claimed): get_loss_dict adds nothing in mode off, and a strictly
\* positive term whenever the mode is not off, some row is not zero and
\* penalty_scale > 0, whatever the two penalties.
C9_PositiveForAnyPenalties ==
    (pc = "ready" /\ op = "get_loss_dict") =>
        IF config.mode = "off" THEN dict = dict0
        ELSE (SomeRowNonZero /\ config.penalty_scale > 0) =>
                (LossTerm.num > 0 /\ LossTerm.den > 0)

\* Some row has a translation part (rot FALSE) or rotation part (rot TRUE)
\* that is not zero.
SomePartNonZero(rot) ==
    \E k \in 1..Len(pose_adjustment) :
        (IF rot THEN Ang(pose_adjustment[k]) ELSE Lin(pose_adjustment[k])) # Zero3

\* C9 (amended): get_loss_dict adds nothing in mode off; otherwise it stores
\* the term, which is strictly positive whenever penalty_scale > 0, neither
\* penalty is negative and some row has a non-zero translation part with
\* trans_l2_penalty > 0 or a non-zero rotation part with rot_l2_penalty > 0.
C9_PositiveForPositivePenalties ==
    (pc = "ready" /\ op = "get_loss_dict") =>
        IF config.mode = "off" THEN dict = dict0
        ELSE /\ "camera_opt_regularizer" \o suffix \in keys(dict)
             /\ ( /\ config.penalty_scale > 0
                  /\ config.trans_l2_penalty >= 0 /\ config.rot_l2_penalty >= 0
                  /\ \/ SomePartNonZero(FALSE) /\ config.trans_l2_penalty > 0
                     \/ SomePartNonZero(TRUE) /\ config.rot_l2_penalty > 0 )
                => (LossTerm.num > 0 /\ LossTerm.den > 0)

\* C9 witness: only rotation parts are non-zero and only the rotation penalty
\* is set, and the term is positive.
C9_Witness ==
    /\ pc = "ready" /\ op = "get_loss_dict" /\ config.mode # "off"
    /\ config.penalty_scale > 0
    /\ config.trans_l2_penalty = 0 /\ config.rot_l2_penalty > 0
    /\ SomePartNonZero(TRUE) /\ ~SomePartNonZero(FALSE)
    /\ LossTerm.num > 0

\* C10: get_param_groups never fails its assertion: in every mode but off it
\* sets param_groups[name] to the non-empty list of the correction parameters
\* and leaves the other groups alone; in mode off there are no parameters and
\* the registry is left as it was.
C10_ParamGroups ==
    (pc = "ready" /\ op = "get_param_groups") =>
        /\ err = "none"
        /\ IF config.mode # "off"
           THEN /\ Len(parameters) > 0
                /\ << "camera_opt", << "pose_adjustment" >> >> \in dict
                /\ \A e \in dict : e[1] = "camera_opt" => e[2] = parameters
                /\ { e \in dict : e[1] # "camera_opt" } = { e \in dict0 : e[1] # "camera_opt" }
           ELSE parameters = <<>> /\ dict = dict0

\* C10 witness: after an optimizer step, a registry that already held a group
\* of the name now holds the correction parameters under it.
C10_Witness ==
    /\ pc = "ready" /\ op = "get_param_groups" /\ config.mode # "off"
    /\ SomeRowNonZero
    /\ << "camera_opt", << "stale" >> >> \in dict0
    /\ << "camera_opt", << "stale" >> >> \notin dict
    /\ << "camera_opt", << "pose_adjustment" >> >> \in dict

\* C11 (as claimed): in any mode, with or without a non-trainable set, forward
\* on an empty index batch returns an empty batch and does not raise.
C11_EmptyBatch ==
    (Corrections /\ Len(indices.vals) = 0) => (err = "none" /\ ret = <<>>)

\* Every parameter row is zero.
AllRowsZero == \A k \in 1..Len(pose_adjustment) : pose_adjustment[k] = ZeroRow

\* C12: the parameters are all zero directly after construction, and while
\* they are all zero forward returns the identity transform for every camera
\* index, in each of the modes SO3xR3, SE3 and shared_SO3xR3.
C12_ZeroIsIdentity ==
    /\ (pc = "ready" /\ op = "__init__" /\ config.mode # "off") =>
          (Len(pose_adjustment) >= 1 /\ AllRowsZero)
    /\ (Corrections /\ config.mode # "off" /\ AllRowsZero) =>
          /\ OneRowEach
          /\ \A k \in 1..Len(ret) : ret[k] = Identity34

\* C12 witness: a trainable camera was asked for in the coupled mode while
\* all parameters are zero.
C12_Witness ==
    /\ Corrections /\ config.mode = "SE3" /\ AllRowsZero
    /\ \E k \in 1..Len(indices.vals) :
          ~NonTrainable(indices.vals[k]) /\ ret[k] = Identity34

\* The correction of camera index i under the current parameters.
Correction(i) ==
    IF NonTrainable(i) THEN Identity34
    ELSE IF config.mode = "SE3" THEN SE3_row(pose_adjustment[i + 1])
    ELSE IF config.mode = "shared_SO3xR3" THEN SO3xR3_row(pose_adjustment[1])
    ELSE SO3xR3_row(pose_adjustment[i + 1])

\* The ray bundle is the earlier one with every ray corrected by its camera's
\* correction: the translation added to the origin, the rotation applied to
\* the direction, the camera indices as they were.
RaysCorrected ==
    /\ Len(raybundle.origins) = Len(raybundle0.origins)
    /\ Len(raybundle.directions) = Len(raybundle0.directions)
    /\ raybundle.camera_indices = raybundle0.camera_indices
    /\ \A k \in 1..Len(raybundle0.camera_indices) :
          /\ raybundle.origins[k] =
                add_translation(raybundle0.origins[k],
                                Correction(raybundle0.camera_indices[k]).t)
          /\ raybundle.directions[k] =
                rotate(Correction(raybundle0.camera_indices[k]).R, raybundle0.directions[k])

\* C13 (as claimed): in every mode but off, apply_to_raybundle on a bundle of
\* N >= 1 rays (one ray included, with or without a trailing singleton
\* dimension of the indices) does not raise and corrects every ray.
C13_RaysCorrected ==
    ( /\ pc = "ready" /\ op = "apply_to_raybundle" /\ config.mode # "off"
      /\ Len(raybundle0.camera_indices) >= 1 )
       => (err = "none" /\ RaysCorrected)

\* C14: after construction no call changes config.mode, and no call but the
\* external optimizer's step changes the correction parameters or the list of
\* registered parameters.
C14_OnlyStepWrites ==
    [][ pc = "ready" =>
           /\ config'.mode = config.mode
           /\ op' # "step" =>
                 (pose_adjustment' = pose_adjustment /\ parameters' = parameters) ]_vars

\* C14 witness: forward was called on a non-trainable camera whose parameters
\* are not zero, and they still are not.
C14_Witness ==
    /\ Corrections /\ config.mode \in {"SO3xR3", "SE3"} /\ err = "none"
    /\ \E k \in 1..Len(indices.vals) :
          /\ NonTrainable(indices.vals[k])
          /\ pose_adjustment[indices.vals[k] + 1] # ZeroRow
          /\ ret[k] = Identity34

=============================================================================
